---- MODULE Spec2Model ----
(***************************************************************************)
(* Per-frame collision pipeline of src/src/main.cpp (flecs + raylib).      *)
(*                                                                         *)
(* Numbers.  Lengths are in world units and times in ticks of 10 ms, so    *)
(* the 0.33 s cap is 33 and the default speed of 1500 units/s is 15 units  *)
(* per tick.  A Vector3 is a triple of integers: a float result that is    *)
(* not on this lattice is rounded to the nearest lattice point.  A unit    *)
(* vector (the result of Vector3Normalize) is held exactly, as the record  *)
(* [num, den2] standing for num / sqrt(den2), and a distance is held by    *)
(* its square, so that comparisons and reflections are exact.              *)
(*                                                                         *)
(* Integers of the program keep their width: a 64-bit cell key is the pair *)
(* <<hi, lo>> of its signed 32-bit words.                                  *)
(***************************************************************************)
EXTENDS Integers, Sequences, FiniteSets, TLC

\* ------------------------------------------------------------------ bounds
MaxBodies == 2      \* entity identities are 1..MaxBodies
MaxFrames == 1      \* calls of world->progress() in one behaviour
MaxCommands == 2    \* button presses and slider writes in one behaviour

\* --------------------------------------------------------------- constants
DefaultGridSize == 250      \* GameState::gridSize
DefaultEntitySize == 10     \* GameState::entitySize
DefaultEntitySpeed == 15    \* GameState::entitySpeed, 1500 units/s in units/tick
CapDeltaTime == 33          \* 0.33f seconds in ticks
maxRetries == 100           \* int maxRetries = 100 of CreateEntity

BodyIds == 1..MaxBodies

\* ------------------------------------------------------------- arithmetic
Abs(x) == IF x < 0 THEN -x ELSE x

Min(a, b) == IF a < b THEN a ELSE b

Max(a, b) == IF a > b THEN a ELSE b

\* a / b rounded to the nearest integer, halves away from zero (b > 0)
RoundDiv(a, b) ==
    IF a >= 0 THEN (2 * a + b) \div (2 * b) ELSE -((2 * (-a) + b) \div (2 * b))

\* std::floor(a / b) for b > 0
FloorDiv(a, b) == a \div b

RECURSIVE SqrtSearch(_, _, _)
SqrtSearch(n, lo, hi) ==
    IF lo >= hi THEN lo
    ELSE LET mid == (lo + hi + 1) \div 2
         IN  IF mid * mid <= n THEN SqrtSearch(n, mid, hi)
                               ELSE SqrtSearch(n, lo, mid - 1)

\* floor of the square root of n, 0 <= n < 2^30
ISqrt(n) == SqrtSearch(n, 0, 32767)

\* 100 * sqrt(n2), rounded down: a float length to two decimals
Sqrt100(n2) == ISqrt(n2 * 10000)

\* ---------------------------------------------------------------- raymath
Vector3Zero == <<0, 0, 0>>

Vector3Add(a, b) == <<a[1] + b[1], a[2] + b[2], a[3] + b[3]>>

Vector3Subtract(a, b) == <<a[1] - b[1], a[2] - b[2], a[3] - b[3]>>

Vector3DotProduct(a, b) == a[1] * b[1] + a[2] * b[2] + a[3] * b[3]

\* Vector3Scale of a lattice vector by an integer scalar
Vector3Scale(v, k) == <<v[1] * k, v[2] * k, v[3] * k>>

\* the square of Vector3Distance(a, b)
Vector3DistanceSqr(a, b) ==
    LET d == Vector3Subtract(a, b) IN Vector3DotProduct(d, d)

\* the square of Vector3Length(v)
Vector3LengthSqr(v) == Vector3DotProduct(v, v)

\* Vector3Normalize: v / |v|, and v itself when |v| = 0
Vector3Normalize(v) ==
    LET l2 == Vector3LengthSqr(v)
    IN  [num |-> v, den2 |-> IF l2 = 0 THEN 1 ELSE l2]

\* Vector3Negate of a unit vector
Vector3Negate(n) == [num |-> Vector3Scale(n.num, -1), den2 |-> n.den2]

\* Vector3Reflect(v, n) = v - 2 (v . n) n, for the unit vector n
Vector3Reflect(v, n) ==
    LET k == 2 * Vector3DotProduct(v, n.num)
    IN  <<v[1] - RoundDiv(k * n.num[1], n.den2),
          v[2] - RoundDiv(k * n.num[2], n.den2),
          v[3] - RoundDiv(k * n.num[3], n.den2)>>

\* Vector3Scale(n, s) for the unit vector n and the scalar s = sNum / (100 * sDen)
ScaleUnit(n, sNum, sDen) ==
    LET l100 == Sqrt100(n.den2)
    IN  <<RoundDiv(n.num[1] * sNum, sDen * l100),
          RoundDiv(n.num[2] * sNum, sDen * l100),
          RoundDiv(n.num[3] * sNum, sDen * l100)>>

\* ------------------------------------------------------------ spatial hash
\* static_cast<long long>(y) / static_cast<unsigned long long>(y) of an int:
\* sign extension to 64 bits
SignExtend(y) == <<IF y >= 0 THEN 0 ELSE -1, y>>

\* the high word x of (x << 32), xor the high word of the sign extension
XorHigh(x, h) == IF h = 0 THEN x ELSE -x - 1

\* (static_cast<long long>(x) << 32) ^ static_cast<unsigned long long>(y)
CellKey(x, y) == <<XorHigh(x, SignExtend(y)[1]), y>>

\* const int32_t cellIndex = key: the low word of the key
NarrowToInt32(key) == key[2]

\* g_cellBuckets[cellIndex]: the int32_t index converted to the long long key
BucketKeyOf(cx, cy) == SignExtend(NarrowToInt32(CellKey(cx, cy)))

\* ComputeCell(p, cellSize)
ComputeCell(p, cellSize) == <<FloorDiv(p[1], cellSize), FloorDiv(p[2], cellSize)>>

\* ------------------------------------------------------------------ state
VARIABLES
    gs,                 \* the GameState singleton
    alive,              \* identities of the live entities
    Position,           \* components, one function over alive each
    Velocity,
    ColorComp,
    SpatialCell,
    CollisionResponse,
    g_cellBuckets,      \* key -> sequence of identities
    pc,                 \* 0 between frames, else the index of the running system
    todo,               \* entities the running system has still to visit
    delta_time,         \* world.delta_time() of the frame
    frame,              \* number of world->progress() calls so far
    started,            \* history: the systems started in this frame, in order
    visits,             \* history: system -> entity -> callbacks in this frame
    evaluated,          \* history: <<e1, e2>> -> distance tests in this frame
    contacts,           \* history: pairs <<e1, e2>> registered in this frame
    walls,              \* history: entity -> walls flagged in this frame
    P0,                 \* history: Position at the start of the frame
    V0,                 \* history: Velocity at the start of the frame
    stale,              \* history: dead identities in g_cellBuckets at the start of the frame
    adding,             \* CreateEntity calls the Add handler has still to make
    commands,           \* number of GUI commands so far
    retries,            \* CreateEntity's retries at its last return
    sched               \* how the systems are scheduled

comps == <<Position, Velocity, ColorComp, SpatialCell, CollisionResponse>>

hist == <<started, visits, evaluated, contacts, walls, P0, V0, stale>>

vars == <<gs, alive, comps, g_cellBuckets, pc, todo, delta_time, frame, hist, adding, commands,
          retries, sched>>

\* ------------------------------------------------------------------ inputs
\* positions GetRandomFloat may return in CreateEntity
SamplePositions == {<<0, 0, 0>>, <<30, 0, 0>>, <<240, 240, 0>>}

\* random vectors {GetRandomFloat(-1,1), GetRandomFloat(-1,1), 0}, in fifths
SampleRandomVelocities == {<<5, 0, 0>>, <<-5, 0, 0>>, <<3, 4, 0>>}

\* values of GetFrameTime(), in ticks
SampleFrameTimes == {1, 40}

\* values the sliders of DrawGUI write
SampleGridSizes == {100}

SampleEntitySizes == {20}

SampleEntitySpeeds == {0, 30}

NoResponse == [posDelta |-> Vector3Zero, velDelta |-> Vector3Zero, hasCollision |-> FALSE]

SystemNames ==
    {"ClearSpatialBuckets", "UpdateSpatialCell", "DetectEntitiesCollision",
     "DetectGridEntity", "ApplyCollisionResponse", "MoveEntities"}

NoVisits == [n \in SystemNames |-> [e \in BodyIds |-> 0]]

NoPairs == [pr \in BodyIds \X BodyIds |-> 0]

NoWalls == [e \in BodyIds |-> {}]

EmptyMap == [k \in {} |-> <<>>]

\* the schedule of the program: the systems run as declared, a
\* single-threaded system visits the entities in table order
DeclaredSchedule == [free |-> FALSE, gridFirst |-> FALSE]

\* gameData.world->set<GameState>({}) on a world without entities
Init ==
    /\ gs = [gridSize |-> DefaultGridSize, entitySize |-> DefaultEntitySize,
             entitySpeed |-> DefaultEntitySpeed]
    /\ alive = {}
    /\ Position = EmptyMap
    /\ Velocity = EmptyMap
    /\ ColorComp = EmptyMap
    /\ SpatialCell = EmptyMap
    /\ CollisionResponse = EmptyMap
    /\ g_cellBuckets = EmptyMap
    /\ pc = 0
    /\ todo = {}
    /\ delta_time = 0
    /\ frame = 0
    /\ started = <<>>
    /\ visits = NoVisits
    /\ evaluated = NoPairs
    /\ contacts = {}
    /\ walls = NoWalls
    /\ P0 = EmptyMap
    /\ V0 = EmptyMap
    /\ stale = {}
    /\ adding = 0
    /\ commands = 0
    /\ retries = 0
    /\ sched = DeclaredSchedule

\* ------------------------------------------------------------ the pipeline
\* mutant: MoveEntities declared before ApplyCollisionResponse
PipelineMoveBeforeApply ==
    <<"ClearSpatialBuckets", "UpdateSpatialCell", "DetectEntitiesCollision",
      "DetectGridEntity", "MoveEntities", "ApplyCollisionResponse">>

\* DeclareECS: the systems in the order of their declaration, all of the
\* phase PrePhysics, which is the order in which progress() runs them
Pipeline ==
    <<"ClearSpatialBuckets", "UpdateSpatialCell", "DetectEntitiesCollision",
      "DetectGridEntity", "ApplyCollisionResponse", "MoveEntities">>

\* the k-th system progress() runs.  sched.gridFirst exchanges the two
\* detectors, which both only add to CollisionResponse
Scheduled(k) ==
    IF sched.gridFirst /\ k \in {3, 4} THEN Pipeline[7 - k] ELSE Pipeline[k]

Running(name) == pc > 0 /\ Scheduled(pc) = name

\* the entities a system visits: ClearSpatialBuckets has no terms and runs once
Matched(k) == IF Scheduled(k) = "ClearSpatialBuckets" THEN {} ELSE alive

\* mutant: .multi_threaded() of UpdateSpatialCell not commented out
MultiThreadedBuild == {"MoveEntities", "UpdateSpatialCell"}

\* the systems that run on several worker threads (.multi_threaded())
MultiThreaded == {"MoveEntities"}

\* the first system from k on that has a callback to run: a system that
\* matches no entity runs without calling its callback
RECURSIVE SkipIdle(_)
SkipIdle(k) ==
    IF k > Len(Pipeline) THEN k
    ELSE IF Scheduled(k) = "ClearSpatialBuckets" \/ alive # {} THEN k
    ELSE SkipIdle(k + 1)

\* the pipeline runs the systems from k on, up to the next callback
RunFrom(k, log) ==
    LET stop == SkipIdle(k)
    IN  /\ pc' = IF stop > Len(Pipeline) THEN 0 ELSE stop
        /\ todo' = IF stop > Len(Pipeline) THEN {} ELSE Matched(stop)
        /\ started' = log \o [i \in 1..(Min(stop, Len(Pipeline)) - k + 1) |-> Scheduled(k + i - 1)]

\* the entity the running system visits next: a single-threaded system
\* walks the table in storage order, taken here as the order of the
\* identities unless sched.free leaves the storage order open (a deletion
\* moves the last row of the table into the freed row); the workers of a
\* multi-threaded system take any entity
VisitsNext(e) ==
    /\ e \in todo
    /\ \/ sched.free
       \/ Scheduled(pc) \in MultiThreaded
       \/ \A other \in todo : e <= other

\* one call of a system's each() callback on the entity e; after the last
\* entity the pipeline moves on
Visit(e) ==
    /\ VisitsNext(e)
    /\ visits' = [visits EXCEPT ![Scheduled(pc)][e] = @ + 1]
    /\ IF todo = {e}
          THEN RunFrom(pc + 1, started)
          ELSE /\ todo' = todo \ {e}
               /\ UNCHANGED <<pc, started>>

\* a main loop whose GUI handlers may also run while the clear step runs
BetweenFramesOrClearing == pc = 0 \/ pc = 1

\* DoMainGameLoop calls progress() and DrawGUI one after the other on the
\* main thread: the GUI handlers run when no system runs
BetweenFrames == pc = 0

\* DoMainGameLoop: frameTime = GetFrameTime(); world->progress(frameTime)
Progress ==
    /\ BetweenFrames
    /\ adding = 0
    /\ frame < MaxFrames
    /\ \E frameTime \in SampleFrameTimes : delta_time' = frameTime
    /\ frame' = frame + 1
    /\ RunFrom(1, <<>>)
    /\ visits' = NoVisits
    /\ evaluated' = NoPairs
    /\ contacts' = {}
    /\ walls' = NoWalls
    /\ P0' = Position
    /\ V0' = Velocity
    /\ stale' = {e \in BodyIds \ alive :
                    \E k \in DOMAIN g_cellBuckets, i \in 1..MaxBodies :
                        i <= Len(g_cellBuckets[k]) /\ g_cellBuckets[k][i] = e}
    /\ retries' = 0
    /\ UNCHANGED <<gs, alive, comps, g_cellBuckets, adding, commands, sched>>

\* a clear step that leaves the buckets of the last frame in place
ClearSpatialBucketsKeepsEntries ==
    /\ Running("ClearSpatialBuckets")
    /\ RunFrom(pc + 1, started)
    /\ UNCHANGED <<gs, alive, comps, g_cellBuckets, delta_time, frame, visits,
                   evaluated, contacts, walls, P0, V0, stale, adding, commands,
                   retries, sched>>

\* ClearSpatialBuckets: g_cellBuckets.clear()
ClearSpatialBuckets ==
    /\ Running("ClearSpatialBuckets")
    /\ g_cellBuckets' = EmptyMap
    /\ RunFrom(pc + 1, started)
    /\ UNCHANGED <<gs, alive, comps, delta_time, frame, visits, evaluated,
                   contacts, walls, P0, V0, stale, adding, commands, retries, sched>>

\* std::max(game_state.entitySize * 2.0f, 1.0f)
CellSize(g) == Max(g.entitySize * 2, 1)

\* g_cellBuckets[cellIndex].push_back(e)
PushBack(buckets, key, e) ==
    IF key \in DOMAIN buckets
        THEN [buckets EXCEPT ![key] = Append(@, e)]
        ELSE buckets @@ (key :> <<e>>)

\* a build step that fills the buckets and leaves the SpatialCell component
UpdateSpatialCellBucketsOnly(e) ==
    /\ Running("UpdateSpatialCell")
    /\ Visit(e)
    /\ LET c == ComputeCell(Position[e], CellSize(gs))
       IN  g_cellBuckets' = PushBack(g_cellBuckets, BucketKeyOf(c[1], c[2]), e)
    /\ UNCHANGED <<gs, alive, comps, delta_time, frame, evaluated, contacts,
                   walls, P0, V0, stale, adding, commands, retries, sched>>

\* UpdateSpatialCell, for one entity
UpdateSpatialCell(e) ==
    /\ Running("UpdateSpatialCell")
    /\ Visit(e)
    /\ LET c == ComputeCell(Position[e], CellSize(gs))
       IN  /\ SpatialCell' = [SpatialCell EXCEPT ![e] = [cellX |-> c[1], cellY |-> c[2]]]
           /\ g_cellBuckets' = PushBack(g_cellBuckets, BucketKeyOf(c[1], c[2]), e)
    /\ UNCHANGED <<gs, alive, Position, Velocity, ColorComp, CollisionResponse,
                   delta_time, frame, evaluated, contacts, walls, P0, V0, stale, adding, commands, retries, sched>>

\* -------------------------------------------------- entity-entity detection
\* for (dy = -1..1) for (dx = -1..1): the offsets <<dx, dy>> in scan order
ScanOffsets ==
    << <<-1, -1>>, <<0, -1>>, <<1, -1>>,
       <<-1, 0>>,  <<0, 0>>,  <<1, 0>>,
       <<-1, 1>>,  <<0, 1>>,  <<1, 1>> >>

\* it = g_cellBuckets.find(CellKey(nx, ny)): the bucket, empty when not found
FindBucket(buckets, nx, ny) ==
    IF CellKey(nx, ny) \in DOMAIN buckets THEN buckets[CellKey(nx, ny)] ELSE <<>>

\* the identities e2 the three loops of the detector yield for the cell sc1,
\* from the i-th offset on
RECURSIVE ScanFrom(_, _, _)
ScanFrom(buckets, sc1, i) ==
    IF i > Len(ScanOffsets) THEN <<>>
    ELSE FindBucket(buckets, sc1.cellX + ScanOffsets[i][1], sc1.cellY + ScanOffsets[i][2])
            \o ScanFrom(buckets, sc1, i + 1)

\* mutant: only the entity itself is skipped
ProcessPairSkipSelf(e1, e2) == e1 # e2

\* if (e1.id() >= e2.id()) continue
ProcessPair(e1, e2) == ~(e1 >= e2)

\* distance < requiredDistance
InContact(p1, p2, requiredDistance) ==
    Vector3DistanceSqr(p1, p2) < requiredDistance * requiredDistance

\* (distance > 0) ? Vector3Normalize(p1 - p2) : Vector3{1, 0, 0}
ContactDirection(p1, p2) ==
    IF Vector3DistanceSqr(p1, p2) > 0
        THEN Vector3Normalize(Vector3Subtract(p1, p2))
        ELSE [num |-> <<1, 0, 0>>, den2 |-> 1]

\* requiredDistance - distance, in hundredths
Overlap100(p1, p2, requiredDistance) ==
    100 * requiredDistance - Sqrt100(Vector3DistanceSqr(p1, p2))

\* mutant: the contact of e1 is computed from the position r1 has already
\* corrected
ContactResponseFromCorrected(p1, v1, p2, v2, r1, r2, requiredDistance) ==
    LET q1 == Vector3Add(p1, r1.posDelta)
        overlap100 == Overlap100(q1, p2, requiredDistance)
        direction == ContactDirection(q1, p2)
        v1_reflect == Vector3Reflect(v1, direction)
        v2_reflect == Vector3Reflect(v2, Vector3Negate(direction))
    IN  [r1 |-> [posDelta |-> Vector3Add(r1.posDelta, ScaleUnit(direction, overlap100, 2)),
                 velDelta |-> Vector3Add(r1.velDelta, Vector3Subtract(v1_reflect, v1)),
                 hasCollision |-> TRUE],
         r2 |-> [posDelta |-> Vector3Add(r2.posDelta, ScaleUnit(direction, -overlap100, 2)),
                 velDelta |-> Vector3Add(r2.velDelta, Vector3Subtract(v2_reflect, v2)),
                 hasCollision |-> TRUE]]

\* the body of "if (distance < requiredDistance)": the values of r1 (a
\* reference to the component of e1) and of r2 after it.  r2 is declared
\* "auto r2 = e2.get_mut<CollisionResponse>()": get_mut returns a reference
\* and auto deduces the value type, so r2 is a local copy of e2's component.
ContactResponse(p1, v1, p2, v2, r1, r2, requiredDistance) ==
    LET overlap100 == Overlap100(p1, p2, requiredDistance)
        direction == ContactDirection(p1, p2)
        p1_move == ScaleUnit(direction, overlap100, 2)
        p2_move == ScaleUnit(direction, -overlap100, 2)
        v1_reflect == Vector3Reflect(v1, direction)
        v2_reflect == Vector3Reflect(v2, Vector3Negate(direction))
    IN  [r1 |-> [posDelta |-> Vector3Add(r1.posDelta, p1_move),
                 velDelta |-> Vector3Add(r1.velDelta, Vector3Subtract(v1_reflect, v1)),
                 hasCollision |-> TRUE],
         r2 |-> [posDelta |-> Vector3Add(r2.posDelta, p2_move),
                 velDelta |-> Vector3Add(r2.velDelta, Vector3Subtract(v2_reflect, v2)),
                 hasCollision |-> TRUE]]

\* the components after one contact of e1 with e2: r1 is written through the
\* reference, the copy r2 goes out of scope with the loop body
StoreResponses(cr, e1, e2, resp) == [cr EXCEPT ![e1] = resp.r1]

\* the CollisionResponse components after e1 has scanned the candidates cands
RECURSIVE ScanCandidates(_, _, _)
ScanCandidates(cr, e1, cands) ==
    IF cands = <<>> THEN cr
    ELSE LET e2 == Head(cands)
         IN  IF ProcessPair(e1, e2) /\ InContact(Position[e1], Position[e2], gs.entitySize * 2)
                THEN ScanCandidates(
                        StoreResponses(cr, e1, e2,
                            ContactResponse(Position[e1], Velocity[e1],
                                            Position[e2], Velocity[e2],
                                            cr[e1], cr[e2], gs.entitySize * 2)),
                        e1, Tail(cands))
                ELSE ScanCandidates(cr, e1, Tail(cands))

\* the number of times e2 occurs in cands
RECURSIVE Occurrences(_, _)
Occurrences(cands, e2) ==
    IF cands = <<>> THEN 0
    ELSE (IF Head(cands) = e2 THEN 1 ELSE 0) + Occurrences(Tail(cands), e2)

\* mutant: the detector moves e1 itself, as the Collide system of the first
\* version of the program did
DetectEntitiesCollisionInPlace(e1) ==
    /\ Running("DetectEntitiesCollision")
    /\ Visit(e1)
    /\ LET cands == ScanFrom(g_cellBuckets, SpatialCell[e1], 1)
           cr == ScanCandidates(CollisionResponse, e1, cands)
       IN  /\ Position' = [Position EXCEPT ![e1] = Vector3Add(@, cr[e1].posDelta)]
           /\ CollisionResponse' = cr
           /\ contacts' = contacts \cup
                    {<<e1, e2>> : e2 \in {x \in alive : /\ Occurrences(cands, x) > 0
                                                       /\ e1 < x
                                                       /\ InContact(Position[e1], Position[x],
                                                                    gs.entitySize * 2)}}
    /\ UNCHANGED <<gs, alive, Velocity, ColorComp, SpatialCell, g_cellBuckets,
                   delta_time, frame, evaluated, walls, P0, V0, stale, adding, commands, retries, sched>>

\* DetectEntitiesCollision, for one entity
DetectEntitiesCollision(e1) ==
    /\ Running("DetectEntitiesCollision")
    /\ Visit(e1)
    /\ LET cands == ScanFrom(g_cellBuckets, SpatialCell[e1], 1)
       IN  /\ CollisionResponse' = ScanCandidates(CollisionResponse, e1, cands)
           /\ evaluated' = [pr \in BodyIds \X BodyIds |->
                    IF pr[1] = e1 /\ ProcessPair(e1, pr[2])
                        THEN evaluated[pr] + Occurrences(cands, pr[2])
                        ELSE evaluated[pr]]
           /\ contacts' = contacts \cup
                    {<<e1, e2>> : e2 \in {x \in alive : /\ Occurrences(cands, x) > 0
                                                       /\ ProcessPair(e1, x)
                                                       /\ InContact(Position[e1], Position[x],
                                                                    gs.entitySize * 2)}}
    /\ UNCHANGED <<gs, alive, Position, Velocity, ColorComp, SpatialCell, g_cellBuckets,
                   delta_time, frame, walls, P0, V0, stale, adding, commands, retries, sched>>

\* ------------------------------------------------ entity-boundary detection
\* the four tests of DetectGridEntity
HitsLeft(p, v, g) == p[1] - g.entitySize < -g.gridSize /\ v[1] < 0

\* mutant: touching the wall counts, as in the Bounce system of the first
\* version of the program
HitsRightTouching(p, v, g) == p[1] + g.entitySize >= g.gridSize /\ v[1] > 0

HitsRight(p, v, g) == p[1] + g.entitySize > g.gridSize /\ v[1] > 0

HitsBottom(p, v, g) == p[2] - g.entitySize < -g.gridSize /\ v[2] < 0

HitsTop(p, v, g) == p[2] + g.entitySize > g.gridSize /\ v[2] > 0

\* the walls whose test holds
FlaggedWalls(p, v, g) ==
    (IF HitsLeft(p, v, g) THEN {"left"} ELSE {}) \cup
    (IF HitsRight(p, v, g) THEN {"right"} ELSE {}) \cup
    (IF HitsBottom(p, v, g) THEN {"bottom"} ELSE {}) \cup
    (IF HitsTop(p, v, g) THEN {"top"} ELSE {})

\* posFix after the four tests
PosFix(p, v, g) ==
    <<(IF HitsLeft(p, v, g) THEN (-g.gridSize + g.entitySize) - p[1] ELSE 0)
        + (IF HitsRight(p, v, g) THEN (g.gridSize - g.entitySize) - p[1] ELSE 0),
      (IF HitsBottom(p, v, g) THEN (-g.gridSize + g.entitySize) - p[2] ELSE 0)
        + (IF HitsTop(p, v, g) THEN (g.gridSize - g.entitySize) - p[2] ELSE 0),
      0>>

\* normal after the four tests
WallNormal(p, v, g) ==
    <<(IF HitsLeft(p, v, g) THEN 1 ELSE 0) + (IF HitsRight(p, v, g) THEN -1 ELSE 0),
      (IF HitsBottom(p, v, g) THEN 1 ELSE 0) + (IF HitsTop(p, v, g) THEN -1 ELSE 0),
      0>>

\* a response that reflects about the combined normal as it is, without
\* normalizing it
WallResponseUnnormalized(p, v, g, resp) ==
    LET reflected == Vector3Reflect(v, [num |-> WallNormal(p, v, g), den2 |-> 1])
    IN  [posDelta |-> Vector3Add(resp.posDelta, PosFix(p, v, g)),
         velDelta |-> Vector3Add(resp.velDelta, Vector3Subtract(reflected, v)),
         hasCollision |-> TRUE]

\* the body of "if (bounced)": resp after it
WallResponse(p, v, g, resp) ==
    LET normal == WallNormal(p, v, g)
        unit == IF Vector3LengthSqr(normal) > 0
                    THEN Vector3Normalize(normal)
                    ELSE [num |-> normal, den2 |-> 1]
        reflected == Vector3Reflect(v, unit)
    IN  [posDelta |-> Vector3Add(resp.posDelta, PosFix(p, v, g)),
         velDelta |-> Vector3Add(resp.velDelta, Vector3Subtract(reflected, v)),
         hasCollision |-> TRUE]

\* DetectGridEntity, for one entity
DetectGridEntity(e) ==
    /\ Running("DetectGridEntity")
    /\ Visit(e)
    /\ LET bounced == FlaggedWalls(Position[e], Velocity[e], gs) # {}
       IN  CollisionResponse' =
                IF bounced
                    THEN [CollisionResponse EXCEPT
                            ![e] = WallResponse(Position[e], Velocity[e], gs, @)]
                    ELSE CollisionResponse
    /\ walls' = [walls EXCEPT ![e] = @ \cup FlaggedWalls(Position[e], Velocity[e], gs)]
    /\ UNCHANGED <<gs, alive, Position, Velocity, ColorComp, SpatialCell, g_cellBuckets,
                   delta_time, frame, evaluated, contacts, P0, V0, stale, adding, commands, retries, sched>>

\* ------------------------------------------------------ apply and integrate
\* GetRandomColor(): a ColorComp holds the number of the draw it came from
GetRandomColor(previous) == previous + 1

\* mutant: the flag is reset, the deltas are kept
ResetResponseKeepDeltas(resp) == [resp EXCEPT !.hasCollision = FALSE]

\* "reset accumulator": resp after the three assignments
ResetResponse(resp) ==
    [posDelta |-> Vector3Zero, velDelta |-> Vector3Zero, hasCollision |-> FALSE]

\* an apply step without the test "if (!resp.hasCollision) return"
ApplyCollisionResponseUnflagged(e) ==
    /\ Running("ApplyCollisionResponse")
    /\ Visit(e)
    /\ Position' = [Position EXCEPT ![e] = Vector3Add(@, CollisionResponse[e].posDelta)]
    /\ Velocity' = [Velocity EXCEPT ![e] = Vector3Add(@, CollisionResponse[e].velDelta)]
    /\ ColorComp' = [ColorComp EXCEPT ![e] = GetRandomColor(@)]
    /\ CollisionResponse' = [CollisionResponse EXCEPT ![e] = ResetResponse(@)]
    /\ UNCHANGED <<gs, alive, SpatialCell, g_cellBuckets, delta_time, frame,
                   evaluated, contacts, walls, P0, V0, stale, adding, commands, retries, sched>>

\* ApplyCollisionResponse, for one entity
ApplyCollisionResponse(e) ==
    /\ Running("ApplyCollisionResponse")
    /\ Visit(e)
    /\ IF ~CollisionResponse[e].hasCollision
          THEN UNCHANGED <<Position, Velocity, ColorComp, CollisionResponse>>
          ELSE /\ Position' = [Position EXCEPT
                        ![e] = Vector3Add(@, CollisionResponse[e].posDelta)]
               /\ Velocity' = [Velocity EXCEPT
                        ![e] = Vector3Add(@, CollisionResponse[e].velDelta)]
               /\ ColorComp' = [ColorComp EXCEPT ![e] = GetRandomColor(@)]
               /\ CollisionResponse' = [CollisionResponse EXCEPT ![e] = ResetResponse(@)]
    /\ UNCHANGED <<gs, alive, SpatialCell, g_cellBuckets, delta_time, frame,
                   evaluated, contacts, walls, P0, V0, stale, adding, commands, retries, sched>>

\* mutant: no cap, as in the Move system of the first version of the program
UnclampedDeltaTime(dt) == dt

\* std::min(world.delta_time(), 0.33f)
ClampedDeltaTime(dt) == Min(dt, CapDeltaTime)

\* MoveEntities, for one entity (the system is multi_threaded: the workers
\* visit the entities in any order)
MoveEntities(e) ==
    /\ Running("MoveEntities")
    /\ Visit(e)
    /\ Position' = [Position EXCEPT
            ![e] = Vector3Add(@, Vector3Scale(Velocity[e], ClampedDeltaTime(delta_time)))]
    /\ UNCHANGED <<gs, alive, Velocity, ColorComp, SpatialCell, CollisionResponse,
                   g_cellBuckets, delta_time, frame, evaluated, contacts, walls,
                   P0, V0, stale, adding, commands, retries, sched>>

\* ------------------------------------------------------- entity management
\* the samples of GetRandomFloat(-gridSize + entitySize, gridSize - entitySize)
PlacementSamples(g) ==
    {p \in SamplePositions :
        /\ -g.gridSize + g.entitySize <= p[1] /\ p[1] <= g.gridSize - g.entitySize
        /\ -g.gridSize + g.entitySize <= p[2] /\ p[2] <= g.gridSize - g.entitySize}

\* a validity test that compares the distance with one entitySize
PositionIsValidOneRadius(newPos, g) ==
    \A existing \in alive :
        ~(Vector3DistanceSqr(newPos, Position[existing])
            < g.entitySize * g.entitySize)

\* positionIsValid after world.each(...) over the existing positions
PositionIsValid(newPos, g) ==
    \A existing \in alive :
        ~(Vector3DistanceSqr(newPos, Position[existing])
            < (g.entitySize * 2) * (g.entitySize * 2))

\* Vector3Scale(Vector3Normalize(randomVelocity), game_state.entitySpeed)
InitialVelocity(randomVelocity, g) ==
    ScaleUnit(Vector3Normalize(randomVelocity), 100 * g.entitySpeed, 1)

\* numbers of candidate positions one call of CreateEntity draws
SampleRetries == {1, maxRetries}

\* mutant: the loop body runs once
LoopEndsAtOnce(positionIsValid, n) == TRUE

\* while (!positionIsValid && retries < maxRetries): the loop ends after the
\* n-th candidate
LoopEnds(positionIsValid, n) == ~(~positionIsValid /\ n < maxRetries)

\* CreateEntity: the do-while loop draws n candidates, newPos is the last of
\* them and the n - 1 before it were rejected.  A valid newPos becomes an
\* entity; an invalid one ends the loop at retries = maxRetries and nothing
\* is created.
CreateEntity ==
    /\ BetweenFrames
    /\ adding > 0
    /\ adding' = adding - 1
    /\ \E n \in SampleRetries, newPos \in PlacementSamples(gs) :
          /\ \A k \in 1..(n - 1) : ~LoopEnds(FALSE, k)
          /\ n > 1 => \E rejected \in PlacementSamples(gs) : ~PositionIsValid(rejected, gs)
          /\ LoopEnds(PositionIsValid(newPos, gs), n)
          /\ retries' = n
          /\ IF ~PositionIsValid(newPos, gs)
            THEN UNCHANGED <<alive, comps>>
            ELSE \E id \in BodyIds \ alive, randomVelocity \in SampleRandomVelocities :
                    /\ alive' = alive \cup {id}
                    /\ Position' = Position @@ (id :> newPos)
                    /\ Velocity' = Velocity @@ (id :> InitialVelocity(randomVelocity, gs))
                    /\ ColorComp' = ColorComp @@ (id :> GetRandomColor(0))
                    /\ SpatialCell' = SpatialCell @@ (id :> [cellX |-> 0, cellY |-> 0])
                    /\ CollisionResponse' = CollisionResponse @@ (id :> NoResponse)
    /\ UNCHANGED <<gs, g_cellBuckets, pc, todo, delta_time, frame, hist, commands, sched>>

\* a GUI command is issued between two frames; the record of the last frame
\* ends with it
Command ==
    /\ BetweenFrames
    /\ adding = 0
    /\ commands < MaxCommands
    /\ commands' = commands + 1
    /\ started' = <<>>
    /\ visits' = NoVisits
    /\ evaluated' = NoPairs
    /\ contacts' = {}
    /\ walls' = NoWalls
    /\ P0' = EmptyMap
    /\ V0' = EmptyMap
    /\ stale' = {}
    /\ retries' = 0
    /\ UNCHANGED <<pc, todo, delta_time, frame, g_cellBuckets, sched>>

\* spinner values the Add button is pressed with
SampleSpinnerValues == 1..MaxBodies

\* DrawGUI, "Add": entityCountSpinnerValue calls of CreateEntity follow
AddButton ==
    /\ Command
    /\ \E n \in SampleSpinnerValues :
          /\ Cardinality(alive) + n <= MaxBodies
          /\ adding' = n
    /\ UNCHANGED <<gs, alive, comps>>

\* the components without the entities of gone
Without(f, gone) == [e \in (DOMAIN f) \ gone |-> f[e]]

\* destruct() / delete_with<Position>() of the entities of gone
Destruct(gone) ==
    /\ alive' = alive \ gone
    /\ Position' = Without(Position, gone)
    /\ Velocity' = Without(Velocity, gone)
    /\ ColorComp' = Without(ColorComp, gone)
    /\ SpatialCell' = Without(SpatialCell, gone)
    /\ CollisionResponse' = Without(CollisionResponse, gone)

\* a "Remove" that destructs every entity the query visits
RemoveButtonDestructsEach ==
    /\ Command
    /\ Destruct(alive)
    /\ UNCHANGED <<gs, adding>>

\* DrawGUI, "Remove": toDelete is the last entity the query visits
RemoveButton ==
    /\ Command
    /\ IF alive = {}
          THEN UNCHANGED <<alive, comps>>
          ELSE \E toDelete \in alive : Destruct({toDelete})
    /\ UNCHANGED <<gs, adding>>

\* DrawGUI, "Remove All": world.delete_with<Position>()
RemoveAllButton ==
    /\ Command
    /\ Destruct(alive)
    /\ UNCHANGED <<gs, adding>>

\* DrawGUI, "Grid Size:" slider
GridSizeSlider ==
    /\ Command
    /\ \E value \in SampleGridSizes \ {gs.gridSize} :
          gs' = [gs EXCEPT !.gridSize = value]
    /\ UNCHANGED <<alive, comps, adding>>

\* DrawGUI, "Entity Size:" slider
EntitySizeSlider ==
    /\ Command
    /\ \E value \in SampleEntitySizes \ {gs.entitySize} :
          gs' = [gs EXCEPT !.entitySize = value]
    /\ UNCHANGED <<alive, comps, adding>>

\* an observer that scales without normalizing first
GameStateObserverNoNormalize(vel, g) ==
    [e \in DOMAIN vel |-> Vector3Scale(vel[e], g.entitySpeed)]

\* an observer that gives a body at rest the direction +X
GameStateObserverStartsResting(vel, g) ==
    [e \in DOMAIN vel |->
        IF vel[e] = Vector3Zero
            THEN <<g.entitySpeed, 0, 0>>
            ELSE ScaleUnit(Vector3Normalize(vel[e]), 100 * g.entitySpeed, 1)]

\* the OnSet observer of GameState: every Velocity is rescaled
GameStateObserver(vel, g) ==
    [e \in DOMAIN vel |-> ScaleUnit(Vector3Normalize(vel[e]), 100 * g.entitySpeed, 1)]

\* DrawGUI, "Entity speed:" slider, then world.modified<GameState>()
EntitySpeedSlider ==
    /\ Command
    /\ \E value \in SampleEntitySpeeds \ {gs.entitySpeed} :
          /\ gs' = [gs EXCEPT !.entitySpeed = value]
          /\ Velocity' = GameStateObserver(Velocity, gs')
    /\ UNCHANGED <<alive, Position, ColorComp, SpatialCell, CollisionResponse, adding>>

\* ------------------------------------------------------------ specification
Next ==
    \/ Progress
    \/ ClearSpatialBuckets
    \/ \E e \in BodyIds : UpdateSpatialCell(e)
    \/ \E e \in BodyIds : DetectEntitiesCollision(e)
    \/ \E e \in BodyIds : DetectGridEntity(e)
    \/ \E e \in BodyIds : ApplyCollisionResponse(e)
    \/ \E e \in BodyIds : MoveEntities(e)
    \/ AddButton
    \/ CreateEntity
    \/ RemoveButton
    \/ RemoveAllButton
    \/ GridSizeSlider
    \/ EntitySizeSlider
    \/ EntitySpeedSlider

Spec == Init /\ [][Next]_vars

\* ------------------------------------------------- a world in mid-run
\* Two bodies as one frame of 0.01 s leaves them.  "apart": created at
\* (-9, 228) and (45, 240), they now stand 30 apart below the top wall.
\* "coincident": created at (0, 240) and (30, 240) with opposite velocities
\* along X, they have moved onto the same point.  "overlapping": created at
\* (85, 0) and (125, 0) with opposite velocities along X, they now overlap
\* by 10 in the cell (5, 0).  "at the wall": created at (0, 230) and
\* (24, 233), body 1 now touches the top wall while body 2 overlaps it from
\* below right.  The buckets and the spatial cells are those of the build
\* step of that frame.
MidRunLayouts ==
    { [Position |-> (1 :> <<0, 240, 0>> @@ 2 :> <<30, 240, 0>>),
       Velocity |-> (1 :> <<9, 12, 0>> @@ 2 :> <<-15, 0, 0>>),
       SpatialCell |-> (1 :> [cellX |-> -1, cellY |-> 11] @@ 2 :> [cellX |-> 2, cellY |-> 12]),
       g_cellBuckets |-> (<<0, 11>> :> <<1>> @@ <<0, 12>> :> <<2>>)],
      [Position |-> (1 :> <<15, 240, 0>> @@ 2 :> <<15, 240, 0>>),
       Velocity |-> (1 :> <<15, 0, 0>> @@ 2 :> <<-15, 0, 0>>),
       SpatialCell |-> (1 :> [cellX |-> 0, cellY |-> 12] @@ 2 :> [cellX |-> 1, cellY |-> 12]),
       g_cellBuckets |-> (<<0, 12>> :> <<1, 2>>)],
      [Position |-> (1 :> <<100, 0, 0>> @@ 2 :> <<110, 0, 0>>),
       Velocity |-> (1 :> <<15, 0, 0>> @@ 2 :> <<-15, 0, 0>>),
       SpatialCell |-> (1 :> [cellX |-> 4, cellY |-> 0] @@ 2 :> [cellX |-> 6, cellY |-> 0]),
       g_cellBuckets |-> (<<0, 0>> :> <<1, 2>>)],
      [Position |-> (1 :> <<0, 245, 0>> @@ 2 :> <<9, 233, 0>>),
       Velocity |-> (1 :> <<0, 15, 0>> @@ 2 :> <<-15, 0, 0>>),
       SpatialCell |-> (1 :> [cellX |-> 0, cellY |-> 11] @@ 2 :> [cellX |-> 1, cellY |-> 11]),
       g_cellBuckets |-> (<<0, 11>> :> <<1, 2>>)] }

\* the schedules a frame is checked under: table order or any order of the
\* entities, either detector first
MidRunSchedules == [free : BOOLEAN, gridFirst : BOOLEAN]

InitMidRun ==
    /\ gs = [gridSize |-> DefaultGridSize, entitySize |-> DefaultEntitySize,
             entitySpeed |-> DefaultEntitySpeed]
    /\ alive = {1, 2}
    /\ \E layout \in MidRunLayouts :
          /\ Position = layout.Position
          /\ Velocity = layout.Velocity
          /\ SpatialCell = layout.SpatialCell
          /\ g_cellBuckets = layout.g_cellBuckets
    /\ ColorComp = [e \in {1, 2} |-> GetRandomColor(0)]
    /\ CollisionResponse = [e \in {1, 2} |-> NoResponse]
    /\ pc = 0
    /\ todo = {}
    /\ delta_time = 1
    /\ frame = 0
    /\ started = <<>>
    /\ visits = NoVisits
    /\ evaluated = NoPairs
    /\ contacts = {}
    /\ walls = NoWalls
    /\ P0 = EmptyMap
    /\ V0 = EmptyMap
    /\ stale = {}
    /\ adding = 0
    /\ commands = 0
    /\ retries = 0
    /\ sched \in MidRunSchedules

SpecMidRun == InitMidRun /\ [][Next]_vars

\* ------------------------------------- the startup of the first version
\* the constants of the first version of the program (ENTITY_SPEED in
\* lattice units per tick)
GRID_SIZE == 250

ENTITY_COUNT == 10

ENTITY_SIZE == 10

ENTITY_SPEED == 15

\* the configuration the first version has in place of a GameState
FirstVersionConstants ==
    [gridSize |-> GRID_SIZE, entitySize |-> ENTITY_SIZE, entitySpeed |-> ENTITY_SPEED]

\* main() of the first version before its creation loop: no entity yet; the
\* loop runs ENTITY_COUNT times, as far as the model has identities
InitStartupInline ==
    /\ gs = FirstVersionConstants
    /\ alive = {}
    /\ Position = EmptyMap
    /\ Velocity = EmptyMap
    /\ ColorComp = EmptyMap
    /\ SpatialCell = EmptyMap
    /\ CollisionResponse = EmptyMap
    /\ g_cellBuckets = EmptyMap
    /\ pc = 0
    /\ todo = {}
    /\ delta_time = 0
    /\ frame = 0
    /\ started = <<>>
    /\ visits = NoVisits
    /\ evaluated = NoPairs
    /\ contacts = {}
    /\ walls = NoWalls
    /\ P0 = EmptyMap
    /\ V0 = EmptyMap
    /\ stale = {}
    /\ adding = Min(ENTITY_COUNT, MaxBodies)
    /\ commands = 0
    /\ retries = 0
    /\ sched = DeclaredSchedule

\* one iteration of "for (int i = 0; i < ENTITY_COUNT; ++i)": the do-while
\* of CreateEntity, then ecs.entity() with the last newPos, with no test of
\* positionIsValid in between
CreateInitialEntityInline ==
    /\ adding > 0
    /\ adding' = adding - 1
    /\ \E n \in SampleRetries, newPos \in PlacementSamples(gs) :
          /\ \A k \in 1..(n - 1) : ~LoopEnds(FALSE, k)
          /\ n > 1 => \E rejected \in PlacementSamples(gs) : ~PositionIsValid(rejected, gs)
          /\ LoopEnds(PositionIsValid(newPos, gs), n)
          /\ retries' = n
          /\ \E id \in BodyIds \ alive, randomVelocity \in SampleRandomVelocities :
                /\ alive' = alive \cup {id}
                /\ Position' = Position @@ (id :> newPos)
                /\ Velocity' = Velocity @@ (id :> InitialVelocity(randomVelocity, gs))
                /\ ColorComp' = ColorComp @@ (id :> GetRandomColor(0))
    /\ UNCHANGED <<gs, SpatialCell, CollisionResponse, g_cellBuckets, pc, todo,
                   delta_time, frame, hist, commands, sched>>

NextStartupInline == CreateInitialEntityInline

SpecStartupInline == InitStartupInline /\ [][NextStartupInline]_vars

\* ------------------------------------------------------------------ claims
\* the order of the six steps of a frame
FrameOrder ==
    <<"ClearSpatialBuckets", "UpdateSpatialCell", "DetectEntitiesCollision",
      "DetectGridEntity", "ApplyCollisionResponse", "MoveEntities">>

\* the record of a frame is at hand: the frame runs, or has ended and no
\* command has followed
FrameRecorded == started # <<>>

\* the step named n of the running frame has visited every entity
StepDone(n) ==
    /\ FrameRecorded
    /\ \E i \in 1..Len(started) : started[i] = n
    /\ ~Running(n)

\* C1: the two detection steps leave the position, the velocity and the
\* spatial cell of every body as they were (and the colour, the buckets, the
\* configuration and the set of bodies too): they write accumulators only.
C1_DetectorsOnlyAccumulate ==
    [][(Running("DetectEntitiesCollision") \/ Running("DetectGridEntity"))
         => /\ Position' = Position
            /\ Velocity' = Velocity
            /\ SpatialCell' = SpatialCell
            /\ ColorComp' = ColorComp
            /\ g_cellBuckets' = g_cellBuckets
            /\ gs' = gs
            /\ alive' = alive]_vars

\* both detectors have run, a contact is registered and nothing is applied yet
C1_Witness ==
    /\ Running("ApplyCollisionResponse")
    /\ todo = alive
    /\ contacts # {}
    /\ \E e \in alive : CollisionResponse[e].posDelta # Vector3Zero
    /\ Position = P0
    /\ Velocity = V0

\* C2: in a frame the six steps run once each, in the order clear, build,
\* entity-entity detection, entity-boundary detection, apply, integrate, and
\* a step has visited every body once before the next step visits any.
C2_StepsInOrder ==
    /\ Len(started) <= Len(FrameOrder)
    /\ started = SubSeq(FrameOrder, 1, Len(started))
    /\ pc > 0 => FrameRecorded
    /\ (pc = 0 /\ FrameRecorded) => started = FrameOrder
    /\ \A i \in 2..Len(FrameOrder), e \in alive :
          IF i > Len(started) THEN visits[FrameOrder[i]][e] = 0
          ELSE IF i < Len(started) \/ pc = 0 THEN visits[FrameOrder[i]][e] = 1
          ELSE visits[FrameOrder[i]][e] = (IF e \in todo THEN 0 ELSE 1)

\* a frame over two bodies has ended
C2_Witness ==
    /\ pc = 0
    /\ started = FrameOrder
    /\ Cardinality(alive) = 2
    /\ \A e \in alive : visits["MoveEntities"][e] = 1

\* C3: from the apply step of a frame to the detection steps of the next
\* one, commands between the frames included, the accumulator of every live
\* body has hasCollision = false, posDelta = 0 and velDelta = 0.
C3_AccumulatorsZero ==
    \A e \in alive :
        (\/ pc = 0
         \/ Running("ClearSpatialBuckets")
         \/ Running("UpdateSpatialCell")
         \/ Running("MoveEntities")
         \/ (Running("ApplyCollisionResponse") /\ e \notin todo))
        => /\ CollisionResponse[e].hasCollision = FALSE
           /\ CollisionResponse[e].posDelta = <<0, 0, 0>>
           /\ CollisionResponse[e].velDelta = <<0, 0, 0>>

\* a frame has ended in which a response was applied to a body
C3_Witness ==
    /\ pc = 0
    /\ frame >= 1
    /\ \E e \in alive : ColorComp[e] > 1 /\ Position[e] # P0[e]

\* C6: in a frame the entity-entity detector tests a pair of distinct bodies
\* at most once, the lower identity scanning, and never a body with itself.
C6_PairsOnce ==
    \A a, b \in BodyIds :
        /\ evaluated[<<a, b>>] <= 1
        /\ evaluated[<<a, b>>] > 0 => a < b
        /\ evaluated[<<a, b>>] + evaluated[<<b, a>>] <= 1

\* the detector has tested a pair
C6_Witness == \E a, b \in alive : a < b /\ evaluated[<<a, b>>] = 1

\* the keys of the buckets that hold e
BucketsHolding(e) ==
    {k \in DOMAIN g_cellBuckets : Occurrences(g_cellBuckets[k], e) > 0}

\* C4: after the build step every live body is in exactly one bucket, once,
\* and this bucket is the one the detector obtains when it looks up the key
\* of the body's own (cellX, cellY).
C4_BodyInBucketOfItsCell ==
    StepDone("UpdateSpatialCell") =>
        \A e \in alive :
            /\ Cardinality(BucketsHolding(e)) = 1
            /\ Occurrences(FindBucket(g_cellBuckets, SpatialCell[e].cellX,
                                      SpatialCell[e].cellY), e) = 1

\* C5: after the build step two bodies are in the same bucket if and only if
\* they have the same (cellX, cellY).
C5_SameBucketIffSameCell ==
    StepDone("UpdateSpatialCell") =>
        \A a, b \in alive :
            (BucketsHolding(a) \cap BucketsHolding(b) # {})
                <=> (SpatialCell[a] = SpatialCell[b])

\* the bodies other than e that e is in a registered contact with
Partners(e) == {o \in alive : <<e, o>> \in contacts \/ <<o, e>> \in contacts}

\* what a contact of a (scanning) with b adds to the two accumulators, from
\* the positions and velocities of the start of the frame
ContactTerms(a, b) ==
    ContactResponse(P0[a], V0[a], P0[b], V0[b], NoResponse, NoResponse, gs.entitySize * 2)

\* the entity-entity detector has visited every body and no later step has
\* visited any
EntityDetectionJustDone == Running("DetectGridEntity") /\ todo = alive

\* C7: a contact registered between A and B (id(A) < id(B), 0 < d < 2R) adds
\* +((2R - d)/2) n and reflect(vA, n) - vA to the accumulator of A, adds
\* -((2R - d)/2) n and reflect(vB, -n) - vB to the accumulator of B, and sets
\* hasCollision on both (stated for a pair without further contacts, so that
\* the accumulators hold these terms alone).
C7_ContactWritesBothAccumulators ==
    EntityDetectionJustDone =>
        \A pr \in contacts :
            (/\ P0[pr[1]] # P0[pr[2]]
             /\ Partners(pr[1]) = {pr[2]}
             /\ Partners(pr[2]) = {pr[1]})
            => /\ pr[1] < pr[2]
               /\ CollisionResponse[pr[1]] = ContactTerms(pr[1], pr[2]).r1
               /\ CollisionResponse[pr[2]] = ContactTerms(pr[1], pr[2]).r2
               /\ CollisionResponse[pr[1]].hasCollision
               /\ CollisionResponse[pr[2]].hasCollision

\* a and b overlap at the start of the frame, no third body overlaps either
\* of them and neither is in contact with a wall
IsolatedOverlap(a, b) ==
    /\ a < b
    /\ InContact(P0[a], P0[b], gs.entitySize * 2)
    /\ \A c \in alive \ {a, b} :
          /\ ~InContact(P0[a], P0[c], gs.entitySize * 2)
          /\ ~InContact(P0[b], P0[c], gs.entitySize * 2)
    /\ walls[a] = {}
    /\ walls[b] = {}

\* C8: a pair that overlaps at the start of a frame, with no other body
\* contact and no wall contact of either body in the frame, is at least
\* 2 * bodyRadius apart after the integration step of the frame.
C8_IsolatedPairSeparated ==
    (pc = 0 /\ started = FrameOrder) =>
        \A a, b \in alive :
            IsolatedOverlap(a, b)
                => Vector3DistanceSqr(Position[a], Position[b])
                      >= (gs.entitySize * 2) * (gs.entitySize * 2)

\* the walls the claim C9 names for a body at p with velocity v
BeyondAndInto(p, v) ==
    {w \in {"left", "right", "bottom", "top"} :
        \/ w = "left" /\ p[1] - gs.entitySize < -gs.gridSize /\ v[1] < 0
        \/ w = "right" /\ p[1] + gs.entitySize > gs.gridSize /\ v[1] > 0
        \/ w = "bottom" /\ p[2] - gs.entitySize < -gs.gridSize /\ v[2] < 0
        \/ w = "top" /\ p[2] + gs.entitySize > gs.gridSize /\ v[2] > 0}

\* the frame's step n has visited the body e and the step after it has not
Between(e, n, after) ==
    /\ FrameRecorded
    /\ visits[n][e] = 1
    /\ visits[after][e] = 0

\* C9: the boundary detector flags a wall for a body exactly when the edge of
\* the body is strictly beyond the wall and the velocity on that axis points
\* strictly into it: a body with zero or inward velocity on the axis gets no
\* response from the wall.  A body with a flagged wall and no body contact is,
\* after the apply step, at +/-(gridSize - entitySize) on that axis with a
\* velocity on that axis that points inward.
C9_WallFlagAndResponse ==
    \A e \in alive :
        /\ visits["DetectGridEntity"][e] = 1 => walls[e] = BeyondAndInto(P0[e], V0[e])
        /\ (Between(e, "DetectGridEntity", "ApplyCollisionResponse") /\ walls[e] = {}
                /\ Partners(e) = {})
            => CollisionResponse[e] = NoResponse
        /\ (Between(e, "DetectGridEntity", "ApplyCollisionResponse") /\ walls[e] # {})
            => CollisionResponse[e].hasCollision
        /\ (Between(e, "ApplyCollisionResponse", "MoveEntities") /\ Partners(e) = {})
            => /\ "left" \in walls[e]
                    => Position[e][1] = -(gs.gridSize - gs.entitySize) /\ Velocity[e][1] > 0
               /\ "right" \in walls[e]
                    => Position[e][1] = gs.gridSize - gs.entitySize /\ Velocity[e][1] < 0
               /\ "bottom" \in walls[e]
                    => Position[e][2] = -(gs.gridSize - gs.entitySize) /\ Velocity[e][2] > 0
               /\ "top" \in walls[e]
                    => Position[e][2] = gs.gridSize - gs.entitySize /\ Velocity[e][2] < 0
               /\ walls[e] = {} => Position[e] = P0[e] /\ Velocity[e] = V0[e]

\* a body without body contact has been put back on a wall it had crossed
C9_Witness ==
    \E e \in alive :
        /\ Between(e, "ApplyCollisionResponse", "MoveEntities")
        /\ Partners(e) = {}
        /\ "right" \in walls[e]
        /\ P0[e][1] + gs.entitySize > gs.gridSize
        /\ Position[e][1] = gs.gridSize - gs.entitySize
        /\ Velocity[e][1] < 0

\* the sum of two accumulators
AddResponses(r, t) ==
    [posDelta |-> Vector3Add(r.posDelta, t.posDelta),
     velDelta |-> Vector3Add(r.velDelta, t.velDelta),
     hasCollision |-> r.hasCollision \/ t.hasCollision]

\* what the contact of e with o contributes to the accumulator of e
ContactTermOf(e, o) ==
    IF o \notin Partners(e) THEN NoResponse
    ELSE IF e < o THEN ContactTerms(e, o).r1
    ELSE ContactTerms(o, e).r2

\* the sum of the contributions of the wall contacts of e and of its contacts
\* with the bodies 1..k
RECURSIVE SumOfTerms(_, _)
SumOfTerms(e, k) ==
    IF k = 0
        THEN (IF walls[e] # {} THEN WallResponse(P0[e], V0[e], gs, NoResponse)
                               ELSE NoResponse)
        ELSE AddResponses(SumOfTerms(e, k - 1),
                          IF k \in alive \ {e} THEN ContactTermOf(e, k) ELSE NoResponse)

\* C10: at the start of the apply step the accumulator of a body holds the
\* sum of the position corrections and the sum of the velocity changes
\* reflect_i(v0) - v0 of all its contacts of the frame, body-body and wall,
\* each computed from the position and velocity of the start of the frame.
C10_AccumulatorIsSumOfContacts ==
    (Running("ApplyCollisionResponse") /\ todo = alive) =>
        \A e \in alive : CollisionResponse[e] = SumOfTerms(e, MaxBodies)

\* the spatial cell the build step gives a body at p
CellOf(p) ==
    [cellX |-> ComputeCell(p, CellSize(gs))[1], cellY |-> ComputeCell(p, CellSize(gs))[2]]

\* the buckets the build step makes when it visits the live bodies among
\* 1..k in the order of their identities
RECURSIVE BucketsUpTo(_)
BucketsUpTo(k) ==
    IF k = 0 THEN EmptyMap
    ELSE IF k \notin alive THEN BucketsUpTo(k - 1)
    ELSE PushBack(BucketsUpTo(k - 1),
                  BucketKeyOf(CellOf(Position[k]).cellX, CellOf(Position[k]).cellY), k)

\* the accumulators after the entity-entity detector has visited the live
\* bodies among 1..k in the order of their identities, from zero accumulators
RECURSIVE EntityResponsesUpTo(_)
EntityResponsesUpTo(k) ==
    IF k = 0 THEN [e \in alive |-> NoResponse]
    ELSE IF k \notin alive THEN EntityResponsesUpTo(k - 1)
    ELSE ScanCandidates(EntityResponsesUpTo(k - 1), k,
                        ScanFrom(BucketsUpTo(MaxBodies), CellOf(Position[k]), 1))

\* the accumulators of the frame run in the declared order, the entities
\* visited in the order of their identities: entity-entity detection, then
\* entity-boundary detection
DeclaredOrderAccumulators ==
    [e \in alive |->
        IF FlaggedWalls(Position[e], Velocity[e], gs) # {}
            THEN WallResponse(Position[e], Velocity[e], gs, EntityResponsesUpTo(MaxBodies)[e])
            ELSE EntityResponsesUpTo(MaxBodies)[e]]

RECURSIVE WrittenUpTo(_, _)
WrittenUpTo(e, k) ==
    IF k = 0
        THEN (IF walls[e] # {} THEN WallResponse(P0[e], V0[e], gs, NoResponse)
                               ELSE NoResponse)
        ELSE AddResponses(WrittenUpTo(e, k - 1),
                          IF <<e, k>> \in contacts THEN ContactTerms(e, k).r1
                                                   ELSE NoResponse)

\* the entities a worker may visit next
Visitable == {e \in BodyIds : pc > 0 /\ VisitsNext(e)}

\* C12: every system but the integration step visits the bodies one after
\* the other on one worker (the build step and the entity-entity detector
\* among them); the workers of the integration step each write the position
\* of their own body from its own velocity, so that in every interleaving a
\* visited body stands at its post-apply position plus velocity * clamped
\* delta time, an unvisited one at its post-apply position, as after a
\* sequential run.
C12_WorkersShareNoLocation ==
    /\ \A n \in SystemNames \ {"MoveEntities"} : Running(n) => Cardinality(Visitable) <= 1
    /\ (FrameRecorded /\ (Running("MoveEntities") \/ pc = 0)) =>
            \A e \in alive :
                /\ Velocity[e] = Vector3Add(V0[e], WrittenUpTo(e, MaxBodies).velDelta)
                /\ Position[e] =
                        Vector3Add(Vector3Add(P0[e], WrittenUpTo(e, MaxBodies).posDelta),
                                   Vector3Scale(Velocity[e],
                                        visits["MoveEntities"][e]
                                            * (IF delta_time < 33 THEN delta_time ELSE 33)))

\* two integration workers are at work and the body of the higher identity
\* has been moved first
C12_Witness ==
    /\ Running("MoveEntities")
    /\ alive = {1, 2}
    /\ visits["MoveEntities"][2] = 1
    /\ visits["MoveEntities"][1] = 0
    /\ Velocity[2] # Vector3Zero
    /\ Position[2] # P0[2]

\* min(frameDeltaTime, 0.33 s), in ticks
CappedTicks == IF delta_time < 33 THEN delta_time ELSE 33

\* C13: a call of the integration step on a body adds velocity *
\* min(frameDeltaTime, 0.33) to the position of the body and changes no other
\* position, no velocity and no accumulator; the displacement is at most
\* 0.33 * |velocity| whatever the frame's delta time.
C13_IntegrationIsClamped ==
    [][Running("MoveEntities") =>
        \E e \in todo :
            /\ Position' = [Position EXCEPT
                    ![e] = <<@[1] + Velocity[e][1] * CappedTicks,
                             @[2] + Velocity[e][2] * CappedTicks,
                             @[3] + Velocity[e][3] * CappedTicks>>]
            /\ Velocity' = Velocity
            /\ CollisionResponse' = CollisionResponse
            /\ Vector3DistanceSqr(Position'[e], Position[e])
                    <= 33 * 33 * Vector3LengthSqr(Velocity[e])]_vars

\* a body has been integrated in a frame of 0.4 s and has moved by 0.33 s of
\* its velocity
C13_Witness ==
    \E e \in alive :
        /\ FrameRecorded
        /\ visits["MoveEntities"][e] = 1
        /\ delta_time = 40
        /\ walls[e] = {}
        /\ Partners(e) = {}
        /\ Velocity[e] = <<15, 0, 0>>
        /\ Position[e] = Vector3Add(P0[e], <<495, 0, 0>>)

\* the distance e travels in the integration step is no larger than the
\* position correction the apply step has given it in this frame
TravelWithinCorrection(e) ==
    Vector3LengthSqr(Vector3Scale(Velocity[e], CappedTicks))
        <= Vector3LengthSqr(WrittenUpTo(e, MaxBodies).posDelta)

\* C14: after the integration step of a frame the center of every body whose
\* travel in the frame did not exceed its position correction of the frame
\* has |x| <= gridSize and |y| <= gridSize.
C14_CentersInsideArena ==
    (pc = 0 /\ started = FrameOrder) =>
        \A e \in alive :
            TravelWithinCorrection(e)
                => /\ -gs.gridSize <= Position[e][1] /\ Position[e][1] <= gs.gridSize
                   /\ -gs.gridSize <= Position[e][2] /\ Position[e][2] <= gs.gridSize

\* w has the direction of the nonzero vector v (or is zero), up to the
\* rounding of w to the lattice: w lies less than one lattice unit off the
\* ray of v, |w x v| <= |v|
SameDirection(w, v) ==
    LET cx == w[2] * v[3] - w[3] * v[2]
        cy == w[3] * v[1] - w[1] * v[3]
        cz == w[1] * v[2] - w[2] * v[1]
    IN  /\ cx * cx + cy * cy + cz * cz <= Vector3LengthSqr(v)
        /\ Vector3DotProduct(w, v) >= 0

\* w has the length s, up to the rounding of w to the lattice (one unit)
HasLength(w, s) ==
    /\ Max(s - 1, 0) * Max(s - 1, 0) <= Vector3LengthSqr(w)
    /\ Vector3LengthSqr(w) <= (s + 1) * (s + 1)

\* C15: a write of entitySpeed = s happens between frames and, in the same
\* step, gives every live body of nonzero velocity a velocity of the same
\* direction and of magnitude s (both up to the rounding of the lattice of
\* the model); positions, cells and accumulators of all bodies are
\* unchanged by it.
C15_SpeedWriteRescales ==
    [][gs'.entitySpeed # gs.entitySpeed =>
          /\ BetweenFrames /\ pc' = 0
          /\ alive' = alive
          /\ \A e \in alive :
                Velocity[e] # Vector3Zero =>
                    /\ SameDirection(Velocity'[e], Velocity[e])
                    /\ HasLength(Velocity'[e], gs'.entitySpeed)
          /\ Position' = Position
          /\ SpatialCell' = SpatialCell
          /\ CollisionResponse' = CollisionResponse
          /\ g_cellBuckets' = g_cellBuckets]_vars

\* a body that moved one tick at speed 15 has been rescaled to speed 30
C15_Witness ==
    /\ pc = 0 /\ frame = 1 /\ gs.entitySpeed = 30
    /\ \E e \in alive : Position[e] = <<9, 12, 0>> /\ Velocity[e] = <<18, 24, 0>>

\* C16: a step that adds a body adds exactly one, at a center distance of at
\* least 2 entitySize from every body alive before the step, with both
\* coordinates in [-gridSize + entitySize, gridSize - entitySize] and a zero
\* accumulator.
C16_CreatedBodyIsClear ==
    [][alive' \ alive # {} =>
          \E id \in alive' \ alive :
              /\ alive' = alive \cup {id}
              /\ Cardinality(alive') = Cardinality(alive) + 1
              /\ \A existing \in alive :
                    /\ Position'[existing] = Position[existing]
                    /\ Vector3DistanceSqr(Position'[id], Position[existing])
                          >= (2 * gs.entitySize) * (2 * gs.entitySize)
              /\ -gs.gridSize + gs.entitySize <= Position'[id][1]
              /\ Position'[id][1] <= gs.gridSize - gs.entitySize
              /\ -gs.gridSize + gs.entitySize <= Position'[id][2]
              /\ Position'[id][2] <= gs.gridSize - gs.entitySize
              /\ CollisionResponse'[id] = NoResponse]_vars

\* a second body has been created while the first one was alive
C16_Witness ==
    /\ pc = 0 /\ frame = 0 /\ adding = 0 /\ retries = 1
    /\ Cardinality(alive) = 2
    /\ \A e \in alive : CollisionResponse[e] = NoResponse

\* the step is a return of CreateEntity
CreateEntityReturns == adding' = adding - 1

\* C17: a call of CreateEntity returns after at most maxRetries candidate
\* positions; a call that adds no body has drawn maxRetries candidates and
\* leaves the set of bodies, every component of every body and the game
\* state unchanged.
C17_CreateEntityGivesUp ==
    [][CreateEntityReturns =>
          /\ 1 <= retries' /\ retries' <= maxRetries
          /\ alive' = alive =>
                /\ retries' = maxRetries
                /\ UNCHANGED <<Position, Velocity, ColorComp, SpatialCell,
                               CollisionResponse, gs, g_cellBuckets>>]_vars

\* the first call of an "Add" of two has created a body, the second has
\* given up after maxRetries candidates
C17_Witness ==
    /\ pc = 0 /\ frame = 0 /\ adding = 0 /\ commands >= 1
    /\ retries = maxRetries
    /\ Cardinality(alive) = 1

\* the apply step has visited every body and the integration step none
ApplyJustDone == Running("MoveEntities") /\ todo = alive

\* a < b were at the same position at the start of the frame, no third body
\* overlaps them and neither is in contact with a wall
IsolatedCoincident(a, b) ==
    /\ a < b
    /\ P0[a] = P0[b]
    /\ \A c \in alive \ {a, b} : ~InContact(P0[a], P0[c], gs.entitySize * 2)
    /\ walls[a] = {}
    /\ walls[b] = {}

\* C18: of two bodies at exactly the same position the one of lower id is
\* moved by (+entitySize, 0, 0) and the one of higher id by
\* (-entitySize, 0, 0) in the apply step, which leaves their centers
\* 2 entitySize apart.
C18_CoincidentPairPushedApart ==
    ApplyJustDone =>
        \A a, b \in alive :
            IsolatedCoincident(a, b)
                => /\ Position[a] = Vector3Add(P0[a], <<gs.entitySize, 0, 0>>)
                   /\ Position[b] = Vector3Add(P0[b], <<-gs.entitySize, 0, 0>>)
                   /\ Vector3DistanceSqr(Position[a], Position[b])
                         = (2 * gs.entitySize) * (2 * gs.entitySize)

\* C19: the set of bodies and the game state change only in steps taken
\* when no system of a frame runs (after the integration step of one frame
\* and before the clear step of the next), and so do the GUI commands; while
\* a frame's pipeline runs they stay as they are.
C19_BodiesChangeBetweenFrames ==
    [][(alive' # alive \/ gs' # gs \/ commands' # commands \/ adding' # adding)
          => /\ pc = 0 /\ pc' = 0
             /\ todo = {} /\ todo' = {}
             /\ frame' = frame]_vars

\* a body that went through a frame has been removed after it
C19_Witness ==
    /\ pc = 0 /\ frame = 1 /\ commands = 2 /\ started = <<>>
    /\ alive = {}
    /\ g_cellBuckets # EmptyMap

\* the identities held by the buckets
BucketEntries ==
    {e \in BodyIds : BucketsHolding(e) # {}}

\* C20: whatever was deleted or created before a frame, the buckets the
\* entity-entity detector reads hold live bodies only, every pair it
\* evaluates or registers is a pair of live bodies, an accumulator that
\* records a collision belongs to a body with a live contact partner or a
\* wall contact in this frame, and between frames every accumulator is zero.
C20_DetectorReadsLiveBodiesOnly ==
    /\ Running("DetectEntitiesCollision") => BucketEntries \subseteq alive
    /\ FrameRecorded =>
          \A pr \in {q \in BodyIds \X BodyIds : evaluated[q] > 0} \cup contacts :
              pr[1] \in alive /\ pr[2] \in alive
    /\ (FrameRecorded /\ pc # 0) =>
          \A e \in alive :
              CollisionResponse[e].hasCollision
                  => Partners(e) # {} \/ walls[e] # {}
    /\ pc = 0 => \A e \in alive : CollisionResponse[e] = NoResponse

\* the detector has run in a frame that began with a deleted body in the
\* buckets
C20_Witness ==
    /\ StepDone("DetectEntitiesCollision")
    /\ stale # {}
    /\ alive # {}

\* the bodies of keep have the position, velocity and accumulator they had
SurvivorsUntouched(keep) ==
    \A e \in keep :
        /\ Position'[e] = Position[e]
        /\ Velocity'[e] = Velocity[e]
        /\ CollisionResponse'[e] = CollisionResponse[e]

\* C21: "Add" of N is followed by N calls of CreateEntity, each of which
\* raises the number of bodies by 0 or 1 (so by 0..N in all); "Remove"
\* lowers it by exactly 1 when a body exists and changes nothing of the
\* program's state when none exists; "Remove All" leaves no body; a body
\* that survives any of these keeps its position, velocity and accumulator.
C21_BodyCommandsChangeCount ==
    [][/\ AddButton =>
             /\ adding' \in SampleSpinnerValues
             /\ alive' = alive /\ comps' = comps
       /\ CreateEntityReturns =>
             /\ alive \subseteq alive'
             /\ Cardinality(alive') - Cardinality(alive) \in {0, 1}
             /\ SurvivorsUntouched(alive)
       /\ RemoveButton =>
             IF alive = {}
                THEN alive' = alive /\ comps' = comps /\ gs' = gs
                                   /\ g_cellBuckets' = g_cellBuckets
                ELSE /\ alive' \subseteq alive
                     /\ Cardinality(alive') = Cardinality(alive) - 1
                     /\ SurvivorsUntouched(alive')
       /\ RemoveAllButton => alive' = {}]_vars

\* two bodies have been added and one of them removed
C21_Witness ==
    /\ pc = 0 /\ frame = 0 /\ commands = 2 /\ adding = 0 /\ retries = 0
    /\ gs.gridSize = DefaultGridSize
    /\ gs.entitySize = DefaultEntitySize
    /\ gs.entitySpeed = DefaultEntitySpeed
    /\ Cardinality(alive) = 1

\* the pairs an all-pairs check finds at the start of the frame: a < b with
\* a center distance below 2 entitySize
AllPairsContacts ==
    {pr \in alive \X alive :
        /\ pr[1] < pr[2]
        /\ InContact(P0[pr[1]], P0[pr[2]], gs.entitySize * 2)}

\* C22: in every frame the pairs on which the entity-entity detector
\* registers a contact are exactly the pairs of live bodies whose center
\* distance is below 2 entitySize.
C22_BroadphaseFindsAllContacts ==
    StepDone("DetectEntitiesCollision") => contacts = AllPairsContacts

\* the step is a visit of the apply step to e
ApplyVisits(e) ==
    /\ Running("ApplyCollisionResponse")
    /\ visits'["ApplyCollisionResponse"][e] = visits["ApplyCollisionResponse"][e] + 1

\* C23: a visit of the apply step to a body whose hasCollision is true adds
\* posDelta to its position and velDelta to its velocity and gives it a
\* newly drawn colour; a visit to a body whose hasCollision is false, and
\* any visit to another body, leaves position, velocity and colour as they
\* were.
C23_ApplyChangesFlaggedBodies ==
    [][Running("ApplyCollisionResponse") =>
          \A e \in alive :
              IF ApplyVisits(e) /\ CollisionResponse[e].hasCollision
                 THEN /\ Position'[e] = Vector3Add(Position[e], CollisionResponse[e].posDelta)
                      /\ Velocity'[e] = Vector3Add(Velocity[e], CollisionResponse[e].velDelta)
                      /\ ColorComp'[e] # ColorComp[e]
                 ELSE /\ Position'[e] = Position[e]
                      /\ Velocity'[e] = Velocity[e]
                      /\ ColorComp'[e] = ColorComp[e]]_vars

\* the apply step has moved and recoloured one body and left another as it was
C23_Witness ==
    /\ ApplyJustDone
    /\ \E a, b \in alive :
          /\ Position[a] # P0[a] /\ ColorComp[a] = GetRandomColor(GetRandomColor(0))
          /\ Position[b] = P0[b] /\ Velocity[b] = V0[b] /\ ColorComp[b] = GetRandomColor(0)

\* C24: while either detector runs, the spatial cell of every live body is
\* (floor(x / c), floor(y / c)) for its current position (x, y) and
\* c = max(2 entitySize, 1) for the current entitySize, also for a body
\* created since the last frame and for a body the last frame has moved.
C24_CellMatchesPosition ==
    (Running("DetectEntitiesCollision") \/ Running("DetectGridEntity")) =>
        \A e \in alive :
            LET c == IF 2 * gs.entitySize > 1 THEN 2 * gs.entitySize ELSE 1
            IN  /\ SpatialCell[e].cellX * c <= Position[e][1]
                /\ Position[e][1] < (SpatialCell[e].cellX + 1) * c
                /\ SpatialCell[e].cellY * c <= Position[e][2]
                /\ Position[e][2] < (SpatialCell[e].cellY + 1) * c

\* a detector runs on a body created since the last frame, at (240, 240),
\* next to a body of the last frame
C24_Witness ==
    /\ Running("DetectEntitiesCollision") \/ Running("DetectGridEntity")
    /\ \E e \in alive :
          /\ Position[e] = <<240, 240, 0>>
          /\ SpatialCell[e] # [cellX |-> 0, cellY |-> 0]
          /\ alive \ {e} # {}

\* C25: at the end of every frame the velocity of every live body has the
\* magnitude entitySpeed (up to the rounding of the lattice), whatever
\* body and wall contacts the frame had.
C25_SpeedPreserved ==
    (pc = 0 /\ FrameRecorded) =>
        \A e \in alive : HasLength(Velocity[e], gs.entitySpeed)

\* the detector has registered the contact of a with b, at different
\* positions, and neither body has another body contact or a wall contact in
\* the frame
IsolatedContact(a, b) ==
    /\ <<a, b>> \in contacts
    /\ P0[a] # P0[b]
    /\ Partners(a) = {b}
    /\ Partners(b) = {a}
    /\ walls[a] = {}
    /\ walls[b] = {}

\* C26: after the apply step the bodies of an isolated contact do not
\* approach each other: the velocity of A relative to B has a component
\* >= 0 along posA - posB.
C26_ContactLeavesBodiesSeparating ==
    ApplyJustDone =>
        \A a, b \in alive :
            IsolatedContact(a, b) =>
                Vector3DotProduct(Vector3Subtract(Velocity[a], Velocity[b]),
                                  Vector3Subtract(P0[a], P0[b])) >= 0

\* both detectors have visited every body and the apply step none
DetectionJustDone == Running("ApplyCollisionResponse") /\ todo = alive

\* the velocity the boundary detector has computed for e, a body without a
\* body contact in the frame: the velocity plus the accumulated velDelta
ReflectedAtWall(e) == Vector3Add(V0[e], CollisionResponse[e].velDelta)

\* C27: the boundary detector flags at most one of left/right and at most
\* one of bottom/top for a body, so the combined normal of a flagged body is
\* not zero; the velocity is reflected about a unit vector (its magnitude is
\* kept) and the reflected velocity points away from every flagged wall,
\* for a corner on both axes.
C27_WallNormalIsUnit ==
    DetectionJustDone =>
        \A e \in alive :
            /\ ~({"left", "right"} \subseteq walls[e])
            /\ ~({"bottom", "top"} \subseteq walls[e])
            /\ (walls[e] # {} /\ Partners(e) = {}) =>
                  /\ CollisionResponse[e].hasCollision
                  /\ Vector3LengthSqr(ReflectedAtWall(e)) = Vector3LengthSqr(V0[e])
                  /\ "left" \in walls[e] => ReflectedAtWall(e)[1] > 0
                  /\ "right" \in walls[e] => ReflectedAtWall(e)[1] < 0
                  /\ "bottom" \in walls[e] => ReflectedAtWall(e)[2] > 0
                  /\ "top" \in walls[e] => ReflectedAtWall(e)[2] < 0

\* the boundary detector has flagged two walls, a corner, for a body
C27_Witness ==
    /\ DetectionJustDone
    /\ \E e \in alive : Cardinality(walls[e]) = 2 /\ Partners(e) = {}

C29_StartupPlacesNoOverlap ==
    (frame = 0 /\ commands = 0) =>
        \A a, b \in alive :
            a # b => Vector3DistanceSqr(Position[a], Position[b])
                        >= (2 * gs.entitySize) * (2 * gs.entitySize)

====
